---- MODULE Spec2Model ----
(***************************************************************************)
(* Replay-side helpers of keploy (package replay, utils.go):              *)
(*   LeftJoinNoise      merge of the global noise with a test set's noise *)
(*   replaceHostToIP    rewrite of the host of a captured URL             *)
(*   SimulateRequest    dispatch of a test case on its kind               *)
(*   TestRunStatus      per test case outcome hook                        *)
(* Each helper has its own specification (SpecNoise, SpecURL and           *)
(* SpecAbsoluteURL, SpecSim, SpecStatus); the variables of the other      *)
(* helpers stay at their initial values.                                   *)
(***************************************************************************)
EXTENDS Integers, Sequences, FiniteSets, TLC

VARIABLES
    \* -- LeftJoinNoise ----------------------------------------------------
    innerHeap,    \* the inner maps (field -> patterns) of the heap, by reference
    globalNoise,  \* the caller's base map: scope -> reference of an inner map, or NilRef
    tsNoise,      \* the override passed to the last call (scope -> inner map value)
    preHeap,      \* the heap when the last call started
    noiseRet,     \* outcome of the last call: "none", "ok" or "panic"
    noise,        \* the map returned by the last call (scope -> reference), NoMap if none
    merges,       \* number of calls made so far
    \* -- replaceHostToIP --------------------------------------------------
    currentURL,   \* the URL argument, a sequence of characters
    ipAddress,    \* the replacement host argument
    hostRet,      \* the call's outcome: [called, url, err]
    \* -- SimulateRequest --------------------------------------------------
    emulator,     \* the testUtils value NewTestUtils built: [apiTimeout]
    simCalls,     \* the calls of SimulateRequest made so far, with what each did
    \* -- TestRunStatus ----------------------------------------------------
    pc,           \* where each caller of TestRunStatus is: "idle", "called", "done"
    callStatus,   \* the status argument of each caller's call
    debugLog,     \* the lines written to the logger, in order
    verdict       \* the test set's TestReportVerdict

noiseVars == <<innerHeap, globalNoise, tsNoise, preHeap, noiseRet, noise, merges>>

urlVars == <<currentURL, ipAddress, hostRet>>

simVars == <<emulator, simCalls>>

statusVars == <<pc, callStatus, debugLog, verdict>>

vars == <<noiseVars, urlVars, simVars, statusVars>>

----------------------------------------------------------------------------
(* LeftJoinNoise *)

\* the two scopes LeftJoinNoise reads
Scopes == {"body", "header"}

\* field names of the bounded universe
Fields == {"f", "g"}

\* longest pattern sequence of a field
MaxPatterns == 1

\* pattern sequences: the empty one means "ignore the field entirely"
PatternSeqs == UNION {[1..n -> {"p"}] : n \in 0..MaxPatterns}

\* map[string][]string values: functions from a set of fields to pattern sequences
InnerMaps == UNION {[D -> PatternSeqs] : D \in SUBSET Fields}

EmptyMap == [k \in {} |-> <<>>]

\* a scope with no inner map (absent key, or nil value) has no reference
NilRef == 0

\* no map at all (before the first call, and when the call panicked)
NoMap == EmptyMap

\* map[string]map[string][]string values: an absent scope is a key not in the domain
NoiseMaps == UNION {[D -> InnerMaps] : D \in SUBSET Scopes}

\* the reference of the base's inner map of a scope, when it has one
RefOf(scope) == IF scope = "body" THEN 1 ELSE 2

InnerRefs == {RefOf(s) : s \in Scopes}

\* most calls of LeftJoinNoise in one run (one per test set)
MaxMerges == 2

\* contents of a map given by references: the scopes it has, each with its inner map
Deep(heap, m) == [s \in {x \in Scopes : m[x] # NilRef} |-> heap[m[s]]]

\* Go's range over m[scope]: indexing an absent scope gives a nil map, which has no entries
RangeKeys(m, scope) == IF scope \in DOMAIN m THEN DOMAIN m[scope] ELSE {}

\* m[field] = regexArr on a non-nil map
MapAssign(m, field, regexArr) ==
    [k \in DOMAIN m \cup {field} |-> IF k = field THEN regexArr ELSE m[k]]

\* for field, regexArr := range src { dst[field] = regexArr }, dst not nil
RECURSIVE AssignEach(_, _, _)
AssignEach(dst, src, keys) ==
    IF keys = {} THEN dst
    ELSE LET field == CHOOSE k \in keys : TRUE
         IN  AssignEach(MapAssign(dst, field, src[field]), src, keys \ {field})

\* one of the two loops: writing the first entry into a nil map panics
JoinScope(heap, base, override, scope) ==
    IF RangeKeys(override, scope) = {} THEN [panic |-> FALSE, heap |-> heap]
    ELSE IF base[scope] = NilRef THEN [panic |-> TRUE, heap |-> heap]
    ELSE [panic |-> FALSE,
          heap  |-> [heap EXCEPT ![base[scope]] =
                        AssignEach(@, override[scope], RangeKeys(override, scope))]]

\* noise := globalNoise copies the reference: noise and globalNoise are one map
AliasOf(base) == base

\* LeftJoinNoise(globalNoise, tsNoise): the body loop, then the header loop
LeftJoinNoise(heap, base, override) ==
    LET b == JoinScope(heap, base, override, "body")
        h == JoinScope(b.heap, base, override, "header")
    IN  IF b.panic THEN [ret |-> "panic", heap |-> b.heap, noise |-> NoMap]
        ELSE IF h.panic THEN [ret |-> "panic", heap |-> h.heap, noise |-> NoMap]
        ELSE [ret |-> "ok", heap |-> h.heap, noise |-> AliasOf(base)]

\* the base maps a configuration can hold: each scope absent or an inner map
StartNoise ==
    /\ globalNoise \in {m \in [Scopes -> InnerRefs \cup {NilRef}] :
                          \A s \in Scopes : m[s] \in {NilRef, RefOf(s)}}
    /\ innerHeap \in [InnerRefs -> InnerMaps]
    /\ \A s \in Scopes : globalNoise[s] = NilRef => innerHeap[RefOf(s)] = EmptyMap
    /\ tsNoise = NoMap
    /\ preHeap = innerHeap
    /\ noiseRet = "none"
    /\ noise = NoMap
    /\ merges = 0

\* the replayer merges the global noise with the noise of the next test set;
\* a panic ends the run
MergeTestSet ==
    /\ merges < MaxMerges
    /\ noiseRet # "panic"
    /\ \E ts \in NoiseMaps :
         LET r == LeftJoinNoise(innerHeap, globalNoise, ts)
         IN  /\ tsNoise' = ts
             /\ preHeap' = innerHeap
             /\ innerHeap' = r.heap
             /\ noiseRet' = r.ret
             /\ noise' = r.noise
    /\ merges' = merges + 1
    /\ UNCHANGED <<globalNoise, urlVars, simVars, statusVars>>


----------------------------------------------------------------------------
(* replaceHostToIP.  Strings are sequences of one-character strings.  The  *)
(* characters of the bounded universe: letters a b p q u, the digit 1, and *)
(* the delimiters : / ? @ [ ].  None of them is escaped or unescaped by     *)
(* net/url in the component it appears in, and all letters are lower case.  *)

Letters == {"a", "b", "p", "q", "u"}
Digits == {"1"}

\* longest host[:port] text of a generated URL
MaxHostLen == 3

\* longest replacement host
MaxIPLen == 3

\* all sequences over a set of characters, up to a length
SeqsUpTo(chars, n) == UNION {[1..k -> chars] : k \in 0..n}

\* strings.HasPrefix
HasPrefix(str, prefix) ==
    /\ Len(prefix) <= Len(str)
    /\ SubSeq(str, 1, Len(prefix)) = prefix

\* strings.HasSuffix
HasSuffix(str, suffix) ==
    /\ Len(suffix) <= Len(str)
    /\ SubSeq(str, Len(str) - Len(suffix) + 1, Len(str)) = suffix

\* strings.Index for a substring: the first position (from 1) or 0 when absent;
\* the empty substring is found at the start
Index(str, sub) ==
    LET hits == {i \in 1..(Len(str) - Len(sub) + 1) : SubSeq(str, i, i + Len(sub) - 1) = sub}
    IN  IF Len(sub) = 0 THEN 1
        ELSE IF hits = {} THEN 0
        ELSE CHOOSE i \in hits : \A j \in hits : i <= j

\* strings.LastIndex for one character: the last position (from 1) or 0
LastIndex(str, c) ==
    LET hits == {i \in 1..Len(str) : str[i] = c}
    IN  IF hits = {} THEN 0 ELSE CHOOSE i \in hits : \A j \in hits : j <= i

\* the text from position i to the end
From(str, i) == SubSeq(str, i, Len(str))

\* strings.Replace(s, old, new, 1): the first occurrence; an empty old matches
\* at the start of the string
ReplaceFirst(str, old, new) ==
    LET i == Index(str, old)
    IN  IF i = 0 THEN str
        ELSE SubSeq(str, 1, i - 1) \o new \o From(str, i + Len(old))

\* net/url validOptionalPort: empty, or a colon and digits
validOptionalPort(port) ==
    \/ port = <<>>
    \/ /\ port[1] = ":"
       /\ \A i \in 2..Len(port) : port[i] \in Digits

\* net/url getScheme: [err, scheme, rest]
RECURSIVE getSchemeFrom(_, _)
getSchemeFrom(rawURL, i) ==
    IF i > Len(rawURL) THEN [err |-> FALSE, scheme |-> <<>>, rest |-> rawURL]
    ELSE IF rawURL[i] \in Letters THEN getSchemeFrom(rawURL, i + 1)
    ELSE IF rawURL[i] \in Digits THEN
        IF i = 1 THEN [err |-> FALSE, scheme |-> <<>>, rest |-> rawURL]
        ELSE getSchemeFrom(rawURL, i + 1)
    ELSE IF rawURL[i] = ":" THEN
        IF i = 1 THEN [err |-> TRUE, scheme |-> <<>>, rest |-> <<>>]
        ELSE [err |-> FALSE, scheme |-> SubSeq(rawURL, 1, i - 1), rest |-> From(rawURL, i + 1)]
    ELSE [err |-> FALSE, scheme |-> <<>>, rest |-> rawURL]

getScheme(rawURL) == getSchemeFrom(rawURL, 1)

\* net/url parseHost: whether the host text is accepted
parseHostOK(host) ==
    IF HasPrefix(host, <<"[">>)
    THEN /\ LastIndex(host, "]") # 0
         /\ validOptionalPort(From(host, LastIndex(host, "]") + 1))
    ELSE \/ LastIndex(host, ":") = 0
         \/ validOptionalPort(From(host, LastIndex(host, ":")))

\* net/url validUserinfo, on the characters of the universe
validUserinfo(userinfo) ==
    \A i \in 1..Len(userinfo) : userinfo[i] \in Letters \cup Digits \cup {":", "@"}

\* net/url parseAuthority: [err, hasUser, user, host]
parseAuthority(authority) ==
    LET i == LastIndex(authority, "@")
        host == IF i = 0 THEN authority ELSE From(authority, i + 1)
        userinfo == IF i = 0 THEN <<>> ELSE SubSeq(authority, 1, i - 1)
    IN  IF ~parseHostOK(host) \/ ~validUserinfo(userinfo)
        THEN [err |-> TRUE, hasUser |-> FALSE, user |-> <<>>, host |-> <<>>]
        ELSE [err |-> FALSE, hasUser |-> i # 0, user |-> userinfo, host |-> host]

\* a URL that failed to parse
ParseError ==
    [err |-> TRUE, Scheme |-> <<>>, Opaque |-> <<>>, HasUser |-> FALSE, User |-> <<>>,
     Host |-> <<>>, Path |-> <<>>, RawQuery |-> <<>>, ForceQuery |-> FALSE, OmitHost |-> FALSE]

\* the query split of net/url parse: [rest, RawQuery, ForceQuery]
splitQuery(rest) ==
    LET q == Index(rest, <<"?">>)
    IN  IF HasSuffix(rest, <<"?">>) /\ Cardinality({i \in 1..Len(rest) : rest[i] = "?"}) = 1
        THEN [rest |-> SubSeq(rest, 1, Len(rest) - 1), RawQuery |-> <<>>, ForceQuery |-> TRUE]
        ELSE IF q = 0 THEN [rest |-> rest, RawQuery |-> <<>>, ForceQuery |-> FALSE]
        ELSE [rest |-> SubSeq(rest, 1, q - 1), RawQuery |-> From(rest, q + 1), ForceQuery |-> FALSE]

\* the first path segment of a rootless path
firstSegment(path) ==
    IF Index(path, <<"/">>) = 0 THEN path ELSE SubSeq(path, 1, Index(path, <<"/">>) - 1)

\* url.Parse (no fragment, viaRequest false)
Parse(rawURL) ==
    LET sch == getScheme(rawURL)
        sq == splitQuery(sch.rest)
        rest == sq.rest
        base == [ParseError EXCEPT !.err = FALSE, !.Scheme = sch.scheme,
                                   !.RawQuery = sq.RawQuery, !.ForceQuery = sq.ForceQuery]
    IN  IF sch.err THEN ParseError
        ELSE IF ~HasPrefix(rest, <<"/">>) /\ sch.scheme # <<>>
        THEN [base EXCEPT !.Opaque = rest]
        ELSE IF ~HasPrefix(rest, <<"/">>) /\ LastIndex(firstSegment(rest), ":") # 0
        THEN ParseError
        ELSE IF (sch.scheme # <<>> \/ ~HasPrefix(rest, <<"/", "/", "/">>))
                /\ HasPrefix(rest, <<"/", "/">>)
        THEN LET after == From(rest, 3)
                 slash == Index(after, <<"/">>)
                 authority == IF slash = 0 THEN after ELSE SubSeq(after, 1, slash - 1)
                 path == IF slash = 0 THEN <<>> ELSE From(after, slash)
                 a == parseAuthority(authority)
             IN  IF a.err THEN ParseError
                 ELSE [base EXCEPT !.HasUser = a.hasUser, !.User = a.user,
                                   !.Host = a.host, !.Path = path]
        ELSE [base EXCEPT !.Path = rest,
                          !.OmitHost = (sch.scheme # <<>> /\ HasPrefix(rest, <<"/">>))]

\* net/url splitHostPort: [host, port]
splitHostPort(hostPort) ==
    LET colon == LastIndex(hostPort, ":")
        split == colon # 0 /\ validOptionalPort(From(hostPort, colon))
        host == IF split THEN SubSeq(hostPort, 1, colon - 1) ELSE hostPort
        port == IF split THEN From(hostPort, colon + 1) ELSE <<>>
    IN  [host |-> IF HasPrefix(host, <<"[">>) /\ HasSuffix(host, <<"]">>)
                  THEN SubSeq(host, 2, Len(host) - 1) ELSE host,
         port |-> port]

\* (*URL).Hostname
Hostname(u) == splitHostPort(u.Host).host

\* (*URL).Port
Port(u) == splitHostPort(u.Host).port

\* (*URL).String
String(u) ==
    LET scheme == IF u.Scheme # <<>> THEN u.Scheme \o <<":">> ELSE <<>>
        omit == u.OmitHost /\ u.Host = <<>> /\ ~u.HasUser
        slashes == IF u.Host # <<>> \/ u.Path # <<>> \/ u.HasUser THEN <<"/", "/">> ELSE <<>>
        user == IF u.HasUser THEN u.User \o <<"@">> ELSE <<>>
        authority == IF (u.Scheme # <<>> \/ u.Host # <<>> \/ u.HasUser) /\ ~omit
                     THEN slashes \o user \o u.Host ELSE <<>>
        root == IF u.Path # <<>> /\ u.Path[1] # "/" /\ u.Host # <<>> THEN <<"/">> ELSE <<>>
        head == scheme \o authority \o root
        dot == IF head = <<>> /\ LastIndex(firstSegment(u.Path), ":") # 0
               THEN <<".", "/">> ELSE <<>>
        query == IF u.ForceQuery \/ u.RawQuery # <<>> THEN <<"?">> \o u.RawQuery ELSE <<>>
    IN  IF u.Opaque # <<>> THEN scheme \o u.Opaque \o query
        ELSE head \o dot \o u.Path \o query

\* parsedURL.Host = strings.Replace(parsedURL.Host, parsedURL.Hostname(), ipAddress, 1)
ReplaceHost(u, ip) == [u EXCEPT !.Host = ReplaceFirst(u.Host, Hostname(u), ip)]

\* replaceHostToIP with the empty-host check made before the parse
replaceHostToIPEmptyFirst(url, ip) ==
    IF ip = <<>> THEN [url |-> url, err |-> "docker"]
    ELSE IF Parse(url).err THEN [url |-> url, err |-> "parse"]
    ELSE [url |-> String(ReplaceHost(Parse(url), ip)), err |-> "nil"]

\* replaceHostToIP(currentURL, ipAddress): [url, err], err one of
\* "nil", "parse" (url.Parse's error) and "docker" (failed to replace url in
\* case of docker env)
replaceHostToIP(url, ip) ==
    LET parsedURL == Parse(url)
    IN  IF parsedURL.err THEN [url |-> url, err |-> "parse"]
        ELSE IF ip = <<>> THEN [url |-> url, err |-> "docker"]
        ELSE [url |-> String(ReplaceHost(parsedURL, ip)), err |-> "nil"]

\* the texts of a URL's parts in the bounded universe
SchemeTexts == {<<>>, <<"a", ":">>, <<":">>}
UserTexts == {<<>>, <<"u", "@">>}
HostTexts == SeqsUpTo({"b", "1", ":", "[", "]"}, MaxHostLen)
PathTexts == {<<>>, <<"/", "p">>, <<"p">>}
QueryTexts == {<<>>, <<"?", "q">>}

\* the URLs of test cases: [scheme:][//[user@]host[:port]][path][?query],
\* well formed or not
URLTexts ==
    {s \o a \o p \o q : s \in SchemeTexts,
                        a \in {<<>>} \cup {<<"/", "/">> \o u \o h : u \in UserTexts, h \in HostTexts},
                        p \in PathTexts, q \in QueryTexts}

\* replacement hosts: names, addresses with colons, and the empty string
IPTexts == SeqsUpTo({"b", "1", ":"}, MaxIPLen)

\* the URLs of captured HTTP requests: a scheme, an authority with a host
\* name and maybe userinfo and a port, an empty or rooted path, maybe a query
AbsoluteURLTexts ==
    {<<"a", ":", "/", "/">> \o u \o h \o n \o p \o q :
        u \in UserTexts, h \in SeqsUpTo({"b", "1"}, MaxHostLen - 1) \ {<<>>},
        n \in {<<>>, <<":", "1">>}, p \in {<<>>, <<"/", "p">>}, q \in QueryTexts}

\* IP addresses and host names: colon-free text (a name, an IPv4 address), or
\* IPv6 text with its "::"
IPAddressTexts ==
    {ip \in IPTexts : ip # <<>> /\ (LastIndex(ip, ":") = 0 \/ Index(ip, <<":", ":">>) # 0)}

NotCalled == [called |-> FALSE, url |-> <<>>, err |-> "nil"]

StartURL ==
    /\ currentURL \in URLTexts
    /\ ipAddress \in IPTexts
    /\ hostRet = NotCalled

\* a captured request's URL and the address of the container to replay against
StartAbsoluteURL ==
    /\ currentURL \in AbsoluteURLTexts
    /\ ipAddress \in IPAddressTexts
    /\ hostRet = NotCalled

\* the replayer rewrites the host of the test case's URL
CallReplaceHostToIP ==
    /\ ~hostRet.called
    /\ hostRet' = [called |-> TRUE] @@ replaceHostToIP(currentURL, ipAddress)
    /\ UNCHANGED <<currentURL, ipAddress, noiseVars, simVars, statusVars>>

----------------------------------------------------------------------------
(* SimulateRequest.  The test case pointer and the logger are not nil.     *)

\* models.HTTP, and the kinds of test case that are not HTTP
HTTP == "Http"
Kinds == {HTTP, "Generic", "gRPC"}

\* a nil *models.HTTPResp, a nil error
Nil == "nil"

\* largest timeout, in seconds, of the bounded universe
MaxTimeout == 2

\* most calls of SimulateRequest on one emulator
MaxCalls == 2

\* test cases: a kind and a name
TestCases == [Kind : Kinds, Name : {"tc1", "tc2"}]

\* what pkg.SimulateHTTP can give back: a response and no error, or no
\* response and an error
Replies == {[resp |-> "resp200", err |-> Nil], [resp |-> "resp500", err |-> Nil],
            [resp |-> Nil, err |-> "timeout"]}

\* NewTestUtils(apiTimeout, logger)
NewTestUtils(apiTimeout) == [apiTimeout |-> apiTimeout]

\* the timeout taken from the call's parameter
SendTimeoutArgument(t, timeoutArg) == timeoutArg

\* the timeout handed to pkg.SimulateHTTP: the emulator's field; the call's
\* own timeout parameter is the blank identifier
SendTimeout(t, timeoutArg) == t.apiTimeout

\* SimulateRequest without the switch on the kind
SimulateRequestAnyKind(t, timeoutArg, tc, reply) ==
    [sends |-> <<[tc |-> tc, timeout |-> SendTimeout(t, timeoutArg)]>>,
     resp |-> reply.resp, err |-> reply.err]

\* SimulateRequest(ctx, _, tc, testSetID) when the transport would answer
\* with reply: the sends made, and the response and error returned
SimulateRequest(t, timeoutArg, tc, reply) ==
    IF tc.Kind = HTTP
    THEN [sends |-> <<[tc |-> tc, timeout |-> SendTimeout(t, timeoutArg)]>>,
          resp |-> reply.resp, err |-> reply.err]
    ELSE [sends |-> <<>>, resp |-> Nil, err |-> Nil]

StartSim ==
    /\ emulator \in {NewTestUtils(a) : a \in 1..MaxTimeout}
    /\ simCalls = <<>>

\* the replayer simulates one test case; the transport's answer is the
\* environment's choice
CallSimulateRequest ==
    /\ Len(simCalls) < MaxCalls
    /\ \E timeoutArg \in 0..MaxTimeout, tc \in TestCases, reply \in Replies :
         simCalls' = Append(simCalls,
                        [timeoutArg |-> timeoutArg, tc |-> tc, reply |-> reply,
                         out |-> SimulateRequest(emulator, timeoutArg, tc, reply)])
    /\ UNCHANGED <<emulator, noiseVars, urlVars, statusVars>>

----------------------------------------------------------------------------
(* TestRunStatus.  The zap logger serialises concurrent writes.            *)

\* concurrent callers reporting into one test set
NCallers == 3

Callers == 1..NCallers

\* the zero value of TestReportVerdict
ZeroVerdict == [total |-> 0, passed |-> 0, failed |-> 0, status |-> FALSE]

\* what TestRunStatus(status, testSetID) writes to the logger
StatusLine(status) == IF status THEN "Test case passed for" ELSE "Test case failed for"

\* what TestRunStatus does to the test set's verdict: nothing, it only logs
VerdictAfterStatus(v, status) == v

StartStatus ==
    /\ pc = [c \in Callers |-> "idle"]
    /\ callStatus = [c \in Callers |-> FALSE]
    /\ debugLog = <<>>
    /\ verdict = ZeroVerdict

\* a replay task calls TestRunStatus(status, testSetID)
EnterTestRunStatus(c) ==
    /\ pc[c] = "idle"
    /\ \E status \in BOOLEAN : callStatus' = [callStatus EXCEPT ![c] = status]
    /\ pc' = [pc EXCEPT ![c] = "called"]
    /\ UNCHANGED <<debugLog, verdict, noiseVars, urlVars, simVars>>

\* the body of TestRunStatus: one debug line, and the return
RunTestRunStatus(c) ==
    /\ pc[c] = "called"
    /\ debugLog' = Append(debugLog, StatusLine(callStatus[c]))
    /\ verdict' = VerdictAfterStatus(verdict, callStatus[c])
    /\ pc' = [pc EXCEPT ![c] = "done"]
    /\ UNCHANGED <<callStatus, noiseVars, urlVars, simVars>>

----------------------------------------------------------------------------
(* Specifications *)

\* the states in which a helper has not been used
IdleNoise ==
    /\ globalNoise = [s \in Scopes |-> NilRef]
    /\ innerHeap = [r \in InnerRefs |-> EmptyMap]
    /\ tsNoise = NoMap
    /\ preHeap = innerHeap
    /\ noiseRet = "none"
    /\ noise = NoMap
    /\ merges = 0

IdleURL ==
    /\ currentURL = <<>>
    /\ ipAddress = <<>>
    /\ hostRet = NotCalled

IdleSim ==
    /\ emulator = NewTestUtils(1)
    /\ simCalls = <<>>

IdleStatus == StartStatus

InitNoise == StartNoise /\ IdleURL /\ IdleSim /\ IdleStatus
NextNoise == MergeTestSet
SpecNoise == InitNoise /\ [][NextNoise]_vars

InitURL == StartURL /\ IdleNoise /\ IdleSim /\ IdleStatus
NextURL == CallReplaceHostToIP
SpecURL == InitURL /\ [][NextURL]_vars

InitAbsoluteURL == StartAbsoluteURL /\ IdleNoise /\ IdleSim /\ IdleStatus
SpecAbsoluteURL == InitAbsoluteURL /\ [][NextURL]_vars

InitSim == StartSim /\ IdleNoise /\ IdleURL /\ IdleStatus
NextSim == CallSimulateRequest
SpecSim == InitSim /\ [][NextSim]_vars

InitStatus == StartStatus /\ IdleNoise /\ IdleURL /\ IdleSim
NextStatus == \E c \in Callers : EnterTestRunStatus(c) \/ RunTestRunStatus(c)
SpecStatus == InitStatus /\ [][NextStatus]_vars

----------------------------------------------------------------------------
(* Properties of LeftJoinNoise *)

\* the fields of a scope of a map; an absent scope has none
FieldsOf(m, scope) == IF scope \in DOMAIN m THEN m[scope] ELSE EmptyMap

\* the right-biased field-level override of two maps, scope by scope
RightBiased(base, override) ==
    [s \in Scopes |->
        [k \in DOMAIN FieldsOf(base, s) \cup DOMAIN FieldsOf(override, s) |->
            IF k \in DOMAIN FieldsOf(override, s)
            THEN FieldsOf(override, s)[k]
            ELSE FieldsOf(base, s)[k]]]

\* the fields of both scopes of a map
AllFields(m) == [s \in Scopes |-> FieldsOf(m, s)]

\* C1: after a call of LeftJoinNoise the caller's base map, the contents of
\* its body and header scopes included, is what it was before the call.
NoiseBaseUnchanged ==
    noiseRet # "none" => Deep(innerHeap, globalNoise) = Deep(preHeap, globalNoise)

\* C2: the call yields a result, and the result holds, per scope and field,
\* the override's patterns where the override has the field (an empty
\* sequence included), else the base's, and no other field.
NoiseResultRightBiased ==
    noiseRet # "none" =>
        /\ noiseRet = "ok"
        /\ AllFields(Deep(innerHeap, noise))
             = RightBiased(Deep(preHeap, globalNoise), tsNoise)

\* Wherever the call returns, what it returns is the right-biased override.
NoiseReturnedRightBiased ==
    noiseRet = "ok" =>
        AllFields(Deep(innerHeap, noise))
            = RightBiased(Deep(preHeap, globalNoise), tsNoise)

\* LeftJoinNoise(LeftJoinNoise(base, override), override) has a value and it
\* equals the value of LeftJoinNoise(base, override)
IdempotentAt(heap, base, override) ==
    LET r1 == LeftJoinNoise(heap, base, override)
    IN  /\ r1.ret = "ok"
        /\ LET r2 == LeftJoinNoise(r1.heap, r1.noise, override)
           IN  /\ r2.ret = "ok"
               /\ Deep(r2.heap, r2.noise) = Deep(r1.heap, r1.noise)

\* C3: merging is idempotent: for the base and the override of every call,
\* merging the result with the same override again gives an equal result.
NoiseMergeIdempotent ==
    noiseRet # "none" => IdempotentAt(preHeap, globalNoise, tsNoise)

\* Wherever the first merge returns, the second returns the same contents.
NoiseIdempotentWhereDefined ==
    noiseRet = "ok" => IdempotentAt(preHeap, globalNoise, tsNoise)

\* C4: LeftJoinNoise always succeeds: with any scope absent from the base or
\* from the override the call returns a result and never panics.
NoiseAlwaysSucceeds == noiseRet # "panic"

----------------------------------------------------------------------------
(* Properties of replaceHostToIP *)

\* the call was made with an empty replacement host
EmptyIPCall == hostRet.called /\ ipAddress = <<>>

\* C5: called with an empty ipAddress, replaceHostToIP returns the original
\* URL unchanged together with the missing-target-host error, for every URL.
EmptyIPGivesMissingHostError ==
    EmptyIPCall => hostRet.url = currentURL /\ hostRet.err = "docker"

\* C5 as amended: called with an empty ipAddress, replaceHostToIP returns the
\* original URL unchanged, with the missing-target-host error when the URL
\* parses and with url.Parse's error when it does not.
EmptyIPGivesMissingHostErrorIfParsed ==
    EmptyIPCall =>
        /\ hostRet.url = currentURL
        /\ hostRet.err = IF Parse(currentURL).err THEN "parse" ELSE "docker"

\* a URL that parses, with a host, was given with an empty ipAddress
EmptyIPWitness ==
    /\ EmptyIPCall
    /\ ~Parse(currentURL).err
    /\ Hostname(Parse(currentURL)) # <<>>
    /\ hostRet.err = "docker"

\* the returned text is a URL with the given hostname and the original's
\* port, scheme, path, query and userinfo
OnlyHostnameChanged(original, returned, ip) ==
    LET o == Parse(original)
        r == Parse(returned)
    IN  /\ ~r.err
        /\ Hostname(r) = ip
        /\ Port(r) = Port(o)
        /\ r.Scheme = o.Scheme
        /\ r.Path = o.Path
        /\ r.RawQuery = o.RawQuery
        /\ r.HasUser = o.HasUser
        /\ r.User = o.User

\* C6: for every URL that parses and every non-empty ipAddress the call
\* returns no error and a URL whose hostname is exactly ipAddress and whose
\* port, scheme, path, query and userinfo are those of the original URL.
HostnameReplacedOnly ==
    (hostRet.called /\ ~Parse(currentURL).err /\ ipAddress # <<>>) =>
        /\ hostRet.err = "nil"
        /\ OnlyHostnameChanged(currentURL, hostRet.url, ipAddress)

\* For the URL of a captured HTTP request and a colon-free replacement host,
\* the call was made and changed only the hostname.
PlainHostReplaced ==
    (hostRet.called /\ LastIndex(ipAddress, ":") = 0) =>
        /\ hostRet.err = "nil"
        /\ OnlyHostnameChanged(currentURL, hostRet.url, ipAddress)

\* With a replacement host that has no colon, and a URL that is not opaque,
\* has no bracketed host and has an empty or rooted path, only the hostname
\* changes.
HostnameReplacedOnlyPlainHost ==
    (/\ hostRet.called /\ ~Parse(currentURL).err /\ ipAddress # <<>>
     /\ LastIndex(ipAddress, ":") = 0
     /\ Parse(currentURL).Opaque = <<>>
     /\ LastIndex(Parse(currentURL).Host, "[") = 0
     /\ Parse(currentURL).Path # <<>> => Parse(currentURL).Path[1] = "/") =>
        /\ hostRet.err = "nil"
        /\ OnlyHostnameChanged(currentURL, hostRet.url, ipAddress)

----------------------------------------------------------------------------
(* Properties of SimulateRequest *)

\* C9: SimulateRequest dispatches on the kind: for an HTTP test case it calls
\* the HTTP transport exactly once, for that test case, and returns exactly
\* the transport's response and error; for any other kind it sends nothing
\* and returns a nil response with a nil error.
DispatchOnKind ==
    \A i \in 1..Len(simCalls) :
        LET c == simCalls[i]
        IN  IF c.tc.Kind = HTTP
            THEN /\ Len(c.out.sends) = 1
                 /\ c.out.sends[1].tc = c.tc
                 /\ c.out.resp = c.reply.resp
                 /\ c.out.err = c.reply.err
            ELSE /\ c.out.sends = <<>>
                 /\ c.out.resp = Nil
                 /\ c.out.err = Nil

\* an HTTP test case whose send failed and a test case of another kind have
\* both been simulated
DispatchWitness ==
    /\ \E i \in 1..Len(simCalls) :
         simCalls[i].tc.Kind = HTTP /\ simCalls[i].out.err = "timeout"
    /\ \E i \in 1..Len(simCalls) :
         simCalls[i].tc.Kind # HTTP /\ simCalls[i].reply.resp # Nil

\* the HTTP calls made so far
HTTPCalls == {i \in 1..Len(simCalls) : simCalls[i].tc.Kind = HTTP}

\* C10: the timeout that bounds the HTTP send is the call's timeout argument:
\* two calls on the same emulator with different timeout arguments send with
\* different timeouts.
SendBoundedByArgument ==
    /\ \A i \in HTTPCalls : simCalls[i].out.sends[1].timeout = simCalls[i].timeoutArg
    /\ \A i, j \in HTTPCalls :
         simCalls[i].timeoutArg # simCalls[j].timeoutArg =>
            simCalls[i].out.sends[1].timeout # simCalls[j].out.sends[1].timeout

\* C10 as amended: the timeout that bounds the HTTP send is the apiTimeout the
\* emulator was constructed with, whatever the call's timeout argument: two
\* calls on the same emulator with different timeout arguments send with the
\* same timeout.
SendBoundedByAPITimeout ==
    /\ \A i \in HTTPCalls : simCalls[i].out.sends[1].timeout = emulator.apiTimeout
    /\ \A i, j \in HTTPCalls :
         simCalls[i].out.sends[1].timeout = simCalls[j].out.sends[1].timeout

\* two HTTP calls with different timeout arguments have been made
TwoTimeoutsWitness ==
    \E i, j \in HTTPCalls :
        /\ simCalls[i].timeoutArg # simCalls[j].timeoutArg
        /\ simCalls[i].timeoutArg # emulator.apiTimeout

----------------------------------------------------------------------------
(* Properties of TestRunStatus *)

\* the callers whose recording has completed
Recorded == {c \in Callers : pc[c] = "done"}

\* C7: after any sequence of recordings the verdict's total is the number of
\* recordings, passed the number with status true, failed the number with
\* status false, and status is (failed = 0 and total > 0).
VerdictCountsRecordings ==
    /\ verdict.total = Cardinality(Recorded)
    /\ verdict.passed = Cardinality({c \in Recorded : callStatus[c]})
    /\ verdict.failed = Cardinality({c \in Recorded : ~callStatus[c]})
    /\ verdict.status = (verdict.failed = 0 /\ verdict.total > 0)

\* C8: under every interleaving of the callers' recordings, once all have
\* completed the verdict's total is their number.
NoLostIncrement ==
    Recorded = Callers => verdict.total = NCallers

====
